---- MODULE Spec2Model ----
\* Model of src/ui/render.ts: renderValue (the recursive value renderer) and
\* renderCompactMarkdown (the compact markup renderer), run against a small
\* DOM and a nondeterministic host MarkdownRenderer.
EXTENDS Integers, Sequences, FiniteSets, TLC

VARIABLES frames, dom, host, component

vars == <<frames, dom, host, component>>

\* ---------------------------------------------------------------- bounds

\* Largest settings.maxRecursiveRenderDepth a run is started with.
MaxSetting == 1

\* Call-stack capacity of the engine, in frames of synchronous nesting.
StackLimit == 8

\* ---------------------------------------------------------------- the DOM
\* dom is the sequence of all nodes ever created; a node's id is its index.
\* A node is [tag, text, cls, mk, kids]; tag "#text" is a text node; mk says who
\* made it: the caller, the renderer (render.ts) or the host's markup renderer.

Container == 1      \* the caller's output container (a div)
OldText == 2        \* content the caller had put in the container before
HtmlElem == 3       \* the detached element that the html Literal is

Node(tag, text, cls, mk) ==
    [tag |-> tag, text |-> text, cls |-> cls, mk |-> mk, kids |-> <<>>]

NewId(d) == Len(d) + 1

\* Node.parentNode removal: c is taken out of whichever child list holds it.
Detach(d, c) ==
    [i \in DOMAIN d |-> [d[i] EXCEPT !.kids = SelectSeq(@, LAMBDA k : k # c)]]

\* Node.appendChild: moves c (from its old parent, if any) to the end of p.
AppendChild(d, p, c) ==
    LET d1 == Detach(d, c) IN [d1 EXCEPT ![p].kids = Append(@, c)]

\* HTMLElement.appendText: a new text node at the end of p.
AppendText(d, p, s) ==
    AppendChild(Append(d, Node("#text", s, "", "renderer")), p, NewId(d))

\* HTMLElement.createEl / createSpan: a new element at the end of p.
CreateEl(d, p, tag, cls) ==
    AppendChild(Append(d, Node(tag, "", cls, "renderer")), p, NewId(d))

\* The global createSpan(): a new element attached to nothing.
CreateDetached(d, tag) == Append(d, Node(tag, "", "", "renderer"))

RECURSIVE MoveAll(_, _, _)
MoveAll(d, p, cs) ==
    IF cs = <<>> THEN d ELSE MoveAll(AppendChild(d, p, Head(cs)), p, Tail(cs))

\* Element.replaceChildren(...cs): p loses all its children and gets cs.
ReplaceChildren(d, p, cs) ==
    MoveAll([d EXCEPT ![p].kids = <<>>], p, cs)

IsElement(d, n) == d[n].tag # "#text"

\* Element.children: the element children only.
Children(d, p) == SelectSeq(d[p].kids, LAMBDA k : IsElement(d, k))

\* Node.childNodes: every child, text nodes included.
ChildNodes(d, p) == d[p].kids

\* querySelector(":scope > p"): the first child that is a paragraph, or 0.
QueryParagraph(d, p) ==
    LET ps == SelectSeq(d[p].kids, LAMBDA k : d[k].tag = "p")
    IN  IF ps = <<>> THEN 0 ELSE Head(ps)

\* ---------------------------------------------------------------- the host
\* What MarkdownRenderer.renderMarkdown may put into its target: a sequence of
\* top-level nodes, each [tag, text, sub] with sub a sequence of [tag, text].

Leaf(tag, text) == [tag |-> tag, text |-> text]

HostOutputs(markdown) ==
    { << [tag |-> "p", text |-> "",
          sub |-> <<Leaf("#text", markdown), Leaf("em", markdown)>>] >>,
      << [tag |-> "ul", text |-> markdown, sub |-> <<>>],
         [tag |-> "ol", text |-> markdown, sub |-> <<>>] >>,
      << [tag |-> "#text", text |-> "nl", sub |-> <<>>],
         [tag |-> "p", text |-> "", sub |-> <<Leaf("#text", markdown)>>] >>,
      << [tag |-> "p", text |-> "", sub |-> <<Leaf("#text", markdown)>>],
         [tag |-> "ul", text |-> markdown, sub |-> <<>>] >> }

RECURSIVE AddLeaves(_, _, _)
AddLeaves(d, p, ls) ==
    IF ls = <<>> THEN d
    ELSE AddLeaves(AppendChild(Append(d, Node(Head(ls).tag, Head(ls).text, "", "host")),
                               p, NewId(d)),
                   p, Tail(ls))

RECURSIVE Materialize(_, _, _)
Materialize(d, target, out) ==
    IF out = <<>> THEN d
    ELSE LET id == NewId(d)
             d1 == AppendChild(Append(d, Node(Head(out).tag, Head(out).text, "", "host")),
                               target, id)
         IN  Materialize(AddLeaves(d1, id, Head(out).sub), target, Tail(out))

\* ---------------------------------------------------------------- Literals
\* The values a render is started on: a heap of Literals addressed by name, so
\* that a composite can hold itself.  elems are the children (sequence
\* elements, mapping values, or <<key, value>> of a list pair), keys the
\* mapping's keys, ctor the constructor name ("" when absent).

Val(kind, text, elems, keys, ctor) ==
    [kind |-> kind, text |-> text, elems |-> elems, keys |-> keys, ctor |-> ctor]

Scalar(kind, text) == Val(kind, text, <<>>, <<>>, "")

Heap ==
    [ vNull     |-> Scalar("null", ""),
      vDate     |-> Scalar("date", "2024-01-01"),
      vDuration |-> Scalar("duration", "1 day"),
      vString   |-> Scalar("string", "s"),
      vNumber   |-> Scalar("number", "5"),
      vBoolean  |-> Scalar("boolean", "true"),
      vLink     |-> Scalar("link", "[[x]]"),
      vHtml     |-> Scalar("html", ""),
      vExternal |-> Scalar("externalLink", "https://x"),
      vWidget   |-> Scalar("widget", "w"),
      vFunction |-> Scalar("function", ""),
      vOther    |-> Scalar("other", "1n"),
      \* sequences
      vEmptyList  |-> Val("array", "", <<>>, <<>>, "Array"),
      vList       |-> Val("array", "", <<"vString", "vNumber">>, <<>>, "Array"),
      vDataArray  |-> Val("dataArray", "", <<"vDate", "vHtml", "vString">>, <<>>, "DataArrayImpl"),
      vNested     |-> Val("array", "", <<"vList", "vDate">>, <<>>, "Array"),
      vCycList    |-> Val("array", "", <<"vDate", "vCycList">>, <<>>, "Array"),
      \* mappings
      vEmptyMap   |-> Val("object", "", <<>>, <<>>, "Object"),
      vMap        |-> Val("object", "", <<"vString", "vPairList">>, <<"a", "b">>, "Object"),
      vBareMap    |-> Val("object", "", <<"vDuration">>, <<"a">>, ""),
      vCycMap     |-> Val("object", "", <<"vCycMap", "vNull">>, <<"a", "b">>, "Object"),
      vForeign    |-> Val("object", "", <<"vForeign", "vCycList", "vString">>, <<"me", "xs", "s">>, "Foo"),
      vHasForeign |-> Val("array", "", <<"vForeign", "vDate">>, <<>>, "Array"),
      \* list pairs
      vPair       |-> Val("listPair", "", <<"vString", "vNumber">>, <<>>, "Object"),
      vPairPair   |-> Val("listPair", "", <<"vDate", "vPair">>, <<>>, "Object"),
      vPairList   |-> Val("array", "", <<"vPairDate">>, <<>>, "Array"),
      vPairDate   |-> Val("listPair", "", <<"vDate", "vDuration">>, <<>>, "Object"),
      vPairOfList |-> Val("listPair", "", <<"vDate", "vNested">>, <<>>, "Object"),
      vCycVia     |-> Val("array", "", <<"vCycViaPair">>, <<>>, "Array"),
      vCycViaPair |-> Val("listPair", "", <<"vDate", "vCycVia">>, <<>>, "Object"),
      vCycPair    |-> Val("listPair", "", <<"vCycPair", "vString">>, <<>>, "Object") ]

Literals == DOMAIN Heap

\* The classification oracle (Values.*, Widgets.*, DataArray.isDataArray).
IsNull(v) == Heap[v].kind = "null"
IsDate(v) == Heap[v].kind = "date"
IsDuration(v) == Heap[v].kind = "duration"
IsString(v) == Heap[v].kind = "string"
IsBoolean(v) == Heap[v].kind = "boolean"
IsNumber(v) == Heap[v].kind = "number"
IsLink(v) == Heap[v].kind = "link"
IsHtml(v) == Heap[v].kind = "html"
IsWidget(v) == Heap[v].kind \in {"listPair", "externalLink", "widget"}
IsListPair(v) == Heap[v].kind = "listPair"
IsExternalLink(v) == Heap[v].kind = "externalLink"
IsFunction(v) == Heap[v].kind = "function"
IsArray(v) == Heap[v].kind = "array"
IsDataArray(v) == Heap[v].kind = "dataArray"
IsObject(v) == Heap[v].kind = "object"

\* The constructor test with == for !=.
IsForeignInverted(v) == Heap[v].ctor # "" /\ Heap[v].ctor = "Object"

\* Line 162: field?.constructor?.name && field?.constructor?.name != "Object"
IsForeign(v) == Heap[v].ctor # "" /\ Heap[v].ctor # "Object"

\* The arm of renderValue's if-chain that takes v, in the chain's order.
Arm(v) ==
    IF IsNull(v) THEN "null"
    ELSE IF IsDate(v) THEN "date"
    ELSE IF IsDuration(v) THEN "duration"
    ELSE IF IsString(v) \/ IsBoolean(v) \/ IsNumber(v) THEN "scalar"
    ELSE IF IsLink(v) THEN "link"
    ELSE IF IsHtml(v) THEN "html"
    ELSE IF IsWidget(v) THEN
        (IF IsListPair(v) THEN "listPair"
         ELSE IF IsExternalLink(v) THEN "externalLink"
         ELSE "widget")
    ELSE IF IsFunction(v) THEN "function"
    ELSE IF IsArray(v) \/ IsDataArray(v) THEN "array"
    ELSE IF IsObject(v) THEN "object"
    ELSE "other"

\* ---------------------------------------------------------------- frames
\* frames is the sequence of all activations of renderValue and
\* renderCompactMarkdown ever started; an activation's id is its index.
\*   field      the Literal (renderValue) or the markdown (renderCompactMarkdown)
\*   parent     the calling activation (0 for the top-level call); site names
\*              the call site: "top", "key", "value", "elem", "entry", "markdown"
\*   pc, i, first, el   the position in the body, the number of children
\*              started, the loop's `first` flag, the list/span/sub node made
\*   waitF, waitH   the activation or host call this one is awaiting (0: none)
\*   sd         the synchronous call-stack depth the activation runs at
\*   lo, out    the length of the container's child list at entry, and the
\*              children the container holds beyond lo at return
\*   st         "run", "done" (returned) or "thrown" (rejected with err)

Settings(n) == [maxRecursiveRenderDepth |-> n, renderNullAs |-> "-"]

Frame(fn, field, container, expandList, context, depth, settings, parent, site, sd, lo) ==
    [fn |-> fn, field |-> field, container |-> container,
     expandList |-> expandList, context |-> context, depth |-> depth,
     settings |-> settings, parent |-> parent, site |-> site,
     pc |-> "start", i |-> 0, first |-> TRUE, el |-> 0,
     waitF |-> 0, waitH |-> 0, sd |-> sd, lo |-> lo, out |-> <<>>,
     st |-> "run", err |-> ""]

\* A call whose promise is dropped instead of awaited: the caller goes on.
FireAndForget(x) == 0

\* `await x`: the awaiting activation is suspended on x.
Await(x) == x

\* An activation that continues after an await runs from the microtask queue,
\* on a fresh stack.
Resume(fr) ==
    IF fr.waitF # 0 \/ fr.waitH # 0
    THEN [fr EXCEPT !.waitF = 0, !.waitH = 0, !.sd = 1]
    ELSE fr

\* What a try/catch around the await would do: the activation goes on.
CatchAndContinue(fr, e) == Resume(fr)

\* An awaited promise was rejected with e: no try/catch anywhere in render.ts,
\* so the awaiting activation is rejected with e in turn.
OnRejected(fr, e) == [fr EXCEPT !.st = "thrown", !.err = e]

\* A call of an async function by activation f (already moved to its next pc
\* in fs): the callee is started and f awaits it; a call that does not fit on
\* the stack throws RangeError in f.
CallFrom(fs, d, f, fn, field, container, expandList, context, depth, settings, site) ==
    LET me == Resume(fs[f])
    IN  IF me.sd >= StackLimit
        THEN [fs EXCEPT ![f] = [me EXCEPT !.st = "thrown", !.err = "RangeError"]]
        ELSE Append([fs EXCEPT ![f] = [me EXCEPT !.waitF = Await(Len(fs) + 1)]],
                    Frame(fn, field, container, expandList, context, depth,
                          settings, f, site, me.sd + 1, Len(d[container].kids)))

\* The recursive calls of renderValue, as written at each call site.
CallKey(fs, d, f) ==
    LET me == fs[f] IN
    CallFrom(fs, d, f, "renderValue", Heap[me.field].elems[1], me.container,
             me.expandList, me.context, me.depth, me.settings, "key")

CallValue(fs, d, f) ==
    LET me == fs[f] IN
    CallFrom(fs, d, f, "renderValue", Heap[me.field].elems[2], me.container,
             me.expandList, me.context, me.depth, me.settings, "value")

\* The call of a child with the caller's context passed on.
CallChildKeepingContext(fs, d, f, child, into, site) ==
    LET me == fs[f] IN
    CallFrom(fs, d, f, "renderValue", child, into,
             me.expandList, me.context, me.depth + 1, me.settings, site)

\* Lines 143, 157, 172, 187: the call of a child, context "list", depth + 1.
CallChild(fs, d, f, child, into, site) ==
    LET me == fs[f] IN
    CallFrom(fs, d, f, "renderValue", child, into,
             me.expandList, "list", me.depth + 1, me.settings, site)

CallMarkdown(fs, d, f, markdown) ==
    LET me == fs[f] IN
    CallFrom(fs, d, f, "renderCompactMarkdown", markdown, me.container,
             me.expandList, me.context, me.depth, me.settings, "markdown")

\* `return` (or falling off the end) of activation f, the DOM being d.
Return(fs, d, f) ==
    LET me == Resume(fs[f])
        kids == d[me.container].kids
    IN  [fs EXCEPT ![f] = [me EXCEPT !.st = "done", !.pc = "end",
                                     !.out = SubSeq(kids, me.lo + 1, Len(kids))]]

\* f can take its next step: it is running and what it awaits has settled well.
Ready(f) ==
    /\ frames[f].st = "run"
    /\ frames[f].waitF # 0 => frames[frames[f].waitF].st = "done"
    /\ frames[f].waitH # 0 => host[frames[f].waitH].st = "resolved"

\* The guard one level late.
DepthExceededOffByOne(fr) == fr.depth > fr.settings.maxRecursiveRenderDepth + 1

\* Line 97: depth > settings.maxRecursiveRenderDepth
DepthExceeded(fr) == fr.depth > fr.settings.maxRecursiveRenderDepth

AtStart(f) ==
    /\ Ready(f)
    /\ frames[f].fn = "renderValue"
    /\ frames[f].pc = "start"

\* f passes the recursion guard and its value takes arm `arm` of the if-chain.
Dispatches(f, arm) ==
    /\ AtStart(f)
    /\ ~DepthExceeded(frames[f])
    /\ Arm(frames[f].field) = arm

At(f, fn, pc) ==
    /\ Ready(f)
    /\ frames[f].fn = fn
    /\ frames[f].pc = pc

\* ---------------------------------------------------------------- renderValue

Init ==
    /\ \E v \in Literals, e \in BOOLEAN, n \in 0..MaxSetting :
          frames = << Frame("renderValue", v, Container, e, "root", 0,
                            Settings(n), 0, "top", 1, 1) >>
    /\ dom = << [Node("div", "", "", "caller") EXCEPT !.kids = <<OldText>>],
                Node("#text", "old", "", "caller"),
                Node("b", "html", "", "caller") >>
    /\ host = <<>>
    /\ component \in {"InlineFieldLivePreviewComponent", "Component"}

\* Text-only arms: what each appends.
TextOf(v) ==
    CASE Arm(v) = "date" -> Heap[v].text
      [] Arm(v) = "duration" -> Heap[v].text
      [] Arm(v) = "widget" -> "<unknown widget '" \o Heap[v].text \o ">"
      [] Arm(v) = "function" -> "<function>"
      [] Arm(v) = "object" -> "<" \o Heap[v].ctor \o ">"
      [] OTHER -> "Unrecognized: " \o Heap[v].text

\* Lines 97-100: the recursion guard.
Guard(f) ==
    /\ AtStart(f)
    /\ DepthExceeded(frames[f])
    /\ dom' = AppendText(dom, frames[f].container, "...")
    /\ frames' = Return(frames, dom', f)
    /\ UNCHANGED <<host, component>>

\* An arm that appends one text and is done.
AppendTextArm(f) ==
    /\ dom' = AppendText(dom, frames[f].container, TextOf(frames[f].field))
    /\ frames' = Return(frames, dom', f)
    /\ UNCHANGED <<host, component>>

\* An arm that hands a markdown string to renderCompactMarkdown and awaits it.
MarkdownArm(f, markdown) ==
    /\ frames' = CallMarkdown([frames EXCEPT ![f].pc = "ret"], dom, f, markdown)
    /\ UNCHANGED <<dom, host, component>>

RenderNull(f) ==
    /\ Dispatches(f, "null")
    /\ MarkdownArm(f, frames[f].settings.renderNullAs)

RenderDate(f) ==
    /\ Dispatches(f, "date")
    /\ AppendTextArm(f)

RenderDuration(f) ==
    /\ Dispatches(f, "duration")
    /\ AppendTextArm(f)

RenderScalar(f) ==
    /\ Dispatches(f, "scalar")
    /\ MarkdownArm(f, Heap[frames[f].field].text)

RenderLink(f) ==
    /\ Dispatches(f, "link")
    /\ MarkdownArm(f, Heap[frames[f].field].text)

RenderHtml(f) ==
    /\ Dispatches(f, "html")
    /\ dom' = AppendChild(dom, frames[f].container, HtmlElem)
    /\ frames' = Return(frames, dom', f)
    /\ UNCHANGED <<host, component>>

\* Line 116.
ListPairKey(f) ==
    /\ Dispatches(f, "listPair")
    /\ frames' = CallKey([frames EXCEPT ![f].pc = "pairColon"], dom, f)
    /\ UNCHANGED <<dom, host, component>>

\* Lines 117-118.
ListPairValue(f) ==
    /\ At(f, "renderValue", "pairColon")
    /\ dom' = AppendText(dom, frames[f].container, ": ")
    /\ frames' = CallValue([frames EXCEPT ![f].pc = "ret"], dom', f)
    /\ UNCHANGED <<host, component>>

\* Lines 120-126: an <a> whose textContent is the url, appended.
ExternalLink(f) ==
    /\ Dispatches(f, "externalLink")
    /\ LET a == NewId(dom)
           d1 == Append(dom, Node("a", Heap[frames[f].field].text, "external-link", "renderer"))
           d2 == AppendChild(Append(d1, Node("#text", Heap[frames[f].field].text, "", "renderer")),
                             a, a + 1)
       IN  dom' = AppendChild(d2, frames[f].container, a)
    /\ frames' = Return(frames, dom', f)
    /\ UNCHANGED <<host, component>>

UnknownWidget(f) ==
    /\ Dispatches(f, "widget")
    /\ AppendTextArm(f)

RenderFunction(f) ==
    /\ Dispatches(f, "function")
    /\ AppendTextArm(f)

\* Lines 134-140.
ArrayExpanded(f) ==
    /\ Dispatches(f, "array")
    /\ frames[f].expandList
    /\ dom' = CreateEl(dom, frames[f].container, "ul",
                       IF frames[f].context = "list" THEN "dataview-result-list-ul"
                       ELSE "dataview-result-list-root-ul")
    /\ frames' = [frames EXCEPT ![f].pc = "ulLoop", ![f].el = NewId(dom)]
    /\ UNCHANGED <<host, component>>

\* Lines 141-144: one turn of the loop, or its end.
ArrayExpandedLoop(f) ==
    /\ At(f, "renderValue", "ulLoop")
    /\ LET me == frames[f]
           elems == Heap[me.field].elems
       IN  IF me.i < Len(elems)
           THEN /\ dom' = CreateEl(dom, me.el, "li", "dataview-result-list-li")
                /\ frames' = CallChild([frames EXCEPT ![f].i = me.i + 1], dom', f,
                                       elems[me.i + 1], NewId(dom), "elem")
           ELSE /\ dom' = dom
                /\ frames' = Return(frames, dom, f)
    /\ UNCHANGED <<host, component>>

\* Lines 146-149.
ArrayEmpty(f) ==
    /\ Dispatches(f, "array")
    /\ ~frames[f].expandList
    /\ Len(Heap[frames[f].field].elems) = 0
    /\ dom' = AppendText(dom, frames[f].container, "<empty list>")
    /\ frames' = Return(frames, dom', f)
    /\ UNCHANGED <<host, component>>

\* Lines 151-152.
ArrayCompact(f) ==
    /\ Dispatches(f, "array")
    /\ ~frames[f].expandList
    /\ Len(Heap[frames[f].field].elems) # 0
    /\ dom' = CreateEl(dom, frames[f].container, "span", "dataview-result-list-span")
    /\ frames' = [frames EXCEPT ![f].pc = "spanLoop", ![f].el = NewId(dom),
                                ![f].first = TRUE]
    /\ UNCHANGED <<host, component>>

\* Lines 153-158: one turn of the loop, or its end.
ArrayCompactLoop(f) ==
    /\ At(f, "renderValue", "spanLoop")
    /\ LET me == frames[f]
           elems == Heap[me.field].elems
       IN  IF me.i < Len(elems)
           THEN /\ dom' = IF me.first THEN dom ELSE AppendText(dom, me.el, ", ")
                /\ frames' = CallChild([frames EXCEPT ![f].i = me.i + 1,
                                                      ![f].first = FALSE],
                                       dom', f, elems[me.i + 1], me.el, "elem")
           ELSE /\ dom' = dom
                /\ frames' = Return(frames, dom, f)
    /\ UNCHANGED <<host, component>>

\* Lines 162-165.
ForeignObject(f) ==
    /\ Dispatches(f, "object")
    /\ IsForeign(frames[f].field)
    /\ AppendTextArm(f)

\* Line 168.
ObjectExpanded(f) ==
    /\ Dispatches(f, "object")
    /\ ~IsForeign(frames[f].field)
    /\ frames[f].expandList
    /\ dom' = CreateEl(dom, frames[f].container, "ul", "dataview-result-object-ul")
    /\ frames' = [frames EXCEPT ![f].pc = "objUlLoop", ![f].el = NewId(dom)]
    /\ UNCHANGED <<host, component>>

\* Lines 169-173.
ObjectExpandedLoop(f) ==
    /\ At(f, "renderValue", "objUlLoop")
    /\ LET me == frames[f]
           elems == Heap[me.field].elems
           keys == Heap[me.field].keys
       IN  IF me.i < Len(elems)
           THEN /\ dom' = AppendText(CreateEl(dom, me.el, "li", "dataview-result-object-li"),
                                     NewId(dom), keys[me.i + 1] \o ": ")
                /\ frames' = CallChild([frames EXCEPT ![f].i = me.i + 1], dom', f,
                                       elems[me.i + 1], NewId(dom), "entry")
           ELSE /\ dom' = dom
                /\ frames' = Return(frames, dom, f)
    /\ UNCHANGED <<host, component>>

\* Lines 175-178.
ObjectEmpty(f) ==
    /\ Dispatches(f, "object")
    /\ ~IsForeign(frames[f].field)
    /\ ~frames[f].expandList
    /\ Len(Heap[frames[f].field].keys) = 0
    /\ dom' = AppendText(dom, frames[f].container, "<empty object>")
    /\ frames' = Return(frames, dom', f)
    /\ UNCHANGED <<host, component>>

\* Lines 180-181.
ObjectCompact(f) ==
    /\ Dispatches(f, "object")
    /\ ~IsForeign(frames[f].field)
    /\ ~frames[f].expandList
    /\ Len(Heap[frames[f].field].keys) # 0
    /\ dom' = CreateEl(dom, frames[f].container, "span", "dataview-result-object-span")
    /\ frames' = [frames EXCEPT ![f].pc = "objSpanLoop", ![f].el = NewId(dom),
                                ![f].first = TRUE]
    /\ UNCHANGED <<host, component>>

\* Lines 182-188.
ObjectCompactLoop(f) ==
    /\ At(f, "renderValue", "objSpanLoop")
    /\ LET me == frames[f]
           elems == Heap[me.field].elems
           keys == Heap[me.field].keys
       IN  IF me.i < Len(elems)
           THEN /\ dom' = AppendText(IF me.first THEN dom ELSE AppendText(dom, me.el, ", "),
                                     me.el, keys[me.i + 1] \o ": ")
                /\ frames' = CallChild([frames EXCEPT ![f].i = me.i + 1,
                                                      ![f].first = FALSE],
                                       dom', f, elems[me.i + 1], me.el, "entry")
           ELSE /\ dom' = dom
                /\ frames' = Return(frames, dom, f)
    /\ UNCHANGED <<host, component>>

\* Line 191.
Unrecognized(f) ==
    /\ Dispatches(f, "other")
    /\ AppendTextArm(f)

\* The end of the body after the last await of a markdown or list-pair arm.
AwaitedReturn(f) ==
    /\ At(f, "renderValue", "ret")
    /\ frames' = Return(frames, dom, f)
    /\ UNCHANGED <<dom, host, component>>

\* ---------------------------------------------------------------- renderCompactMarkdown

\* component instanceof InlineFieldLivePreviewComponent
IsLivePreview == component = "InlineFieldLivePreviewComponent"

\* MarkdownRenderer.renderMarkdown(markdown, target, ...) is called by f and awaited.
HostCall(f, markdown, target) ==
    [markdown |-> markdown, target |-> target, by |-> f, st |-> "pending"]

\* Lines 18-19.
RcmPreview(f) ==
    /\ At(f, "renderCompactMarkdown", "start")
    /\ IsLivePreview
    /\ dom' = CreateDetached(dom, "span")
    /\ host' = Append(host, HostCall(f, frames[f].field, NewId(dom)))
    /\ frames' = [frames EXCEPT ![f].pc = "collapse", ![f].el = NewId(dom),
                                ![f].waitH = Await(Len(host) + 1)]
    /\ UNCHANGED component

\* Lines 21-24 and 50: what the preview strategy leaves in the container.
PreviewCollapse(d, container, tmpContainer) ==
    LET paragraph == QueryParagraph(d, tmpContainer)
    IN  IF Len(ChildNodes(d, tmpContainer)) = 1 /\ paragraph # 0
        THEN ReplaceChildren(d, container, ChildNodes(d, paragraph))
        ELSE ReplaceChildren(d, container, ChildNodes(d, tmpContainer))

\* Lines 21-53.
RcmPreviewDone(f) ==
    /\ At(f, "renderCompactMarkdown", "collapse")
    /\ IsLivePreview
    /\ dom' = Detach(PreviewCollapse(dom, frames[f].container, frames[f].el),
                     frames[f].el)
    /\ frames' = Return(frames, dom', f)
    /\ UNCHANGED <<host, component>>

\* Lines 55-56.
RcmGeneric(f) ==
    /\ At(f, "renderCompactMarkdown", "start")
    /\ ~IsLivePreview
    /\ dom' = CreateEl(dom, frames[f].container, "span", "")
    /\ host' = Append(host, HostCall(f, frames[f].field, NewId(dom)))
    /\ frames' = [frames EXCEPT ![f].pc = "collapse", ![f].el = NewId(dom),
                                ![f].waitH = Await(Len(host) + 1)]
    /\ UNCHANGED component

\* The test without its count of the children.
HoistsAnyParagraph(d, subcontainer) == QueryParagraph(d, subcontainer) # 0

\* Line 59: the test that decides the hoist.
Hoists(d, subcontainer) ==
    Len(Children(d, subcontainer)) = 1 /\ QueryParagraph(d, subcontainer) # 0

\* Lines 58-64: what the generic strategy leaves in the subcontainer.
GenericCollapse(d, subcontainer) ==
    LET paragraph == QueryParagraph(d, subcontainer)
    IN  IF Hoists(d, subcontainer)
        THEN Detach(MoveAll(d, subcontainer, ChildNodes(d, paragraph)), paragraph)
        ELSE d

\* Lines 58-65.
RcmGenericDone(f) ==
    /\ At(f, "renderCompactMarkdown", "collapse")
    /\ ~IsLivePreview
    /\ dom' = GenericCollapse(dom, frames[f].el)
    /\ frames' = Return(frames, dom', f)
    /\ UNCHANGED <<host, component>>

\* ---------------------------------------------------------------- the host's steps

\* The host finishes a markup render: its output is in the target.
HostResolve(h) ==
    /\ host[h].st = "pending"
    /\ \E out \in HostOutputs(host[h].markdown) :
          dom' = Materialize(dom, host[h].target, out)
    /\ host' = [host EXCEPT ![h].st = "resolved"]
    /\ UNCHANGED <<frames, component>>

\* The host fails a markup render.
HostReject(h) ==
    /\ host[h].st = "pending"
    /\ host' = [host EXCEPT ![h].st = "rejected"]
    /\ UNCHANGED <<frames, dom, component>>

\* ---------------------------------------------------------------- failure

\* What f awaits has been rejected (with which error).
AwaitedFailure(f) ==
    IF frames[f].waitF # 0 /\ frames[frames[f].waitF].st = "thrown"
    THEN frames[frames[f].waitF].err
    ELSE IF frames[f].waitH # 0 /\ host[frames[f].waitH].st = "rejected"
    THEN "HostError"
    ELSE ""

\* The rejection of an awaited call reaches the awaiting activation.
Rethrow(f) ==
    /\ frames[f].st = "run"
    /\ AwaitedFailure(f) # ""
    /\ frames' = [frames EXCEPT ![f] = OnRejected(@, AwaitedFailure(f))]
    /\ UNCHANGED <<dom, host, component>>

\* ---------------------------------------------------------------- the system

Next ==
    \/ \E f \in DOMAIN frames : Guard(f)
    \/ \E f \in DOMAIN frames : RenderNull(f)
    \/ \E f \in DOMAIN frames : RenderDate(f)
    \/ \E f \in DOMAIN frames : RenderDuration(f)
    \/ \E f \in DOMAIN frames : RenderScalar(f)
    \/ \E f \in DOMAIN frames : RenderLink(f)
    \/ \E f \in DOMAIN frames : RenderHtml(f)
    \/ \E f \in DOMAIN frames : ListPairKey(f)
    \/ \E f \in DOMAIN frames : ListPairValue(f)
    \/ \E f \in DOMAIN frames : ExternalLink(f)
    \/ \E f \in DOMAIN frames : UnknownWidget(f)
    \/ \E f \in DOMAIN frames : RenderFunction(f)
    \/ \E f \in DOMAIN frames : ArrayExpanded(f)
    \/ \E f \in DOMAIN frames : ArrayExpandedLoop(f)
    \/ \E f \in DOMAIN frames : ArrayEmpty(f)
    \/ \E f \in DOMAIN frames : ArrayCompact(f)
    \/ \E f \in DOMAIN frames : ArrayCompactLoop(f)
    \/ \E f \in DOMAIN frames : ForeignObject(f)
    \/ \E f \in DOMAIN frames : ObjectExpanded(f)
    \/ \E f \in DOMAIN frames : ObjectExpandedLoop(f)
    \/ \E f \in DOMAIN frames : ObjectEmpty(f)
    \/ \E f \in DOMAIN frames : ObjectCompact(f)
    \/ \E f \in DOMAIN frames : ObjectCompactLoop(f)
    \/ \E f \in DOMAIN frames : Unrecognized(f)
    \/ \E f \in DOMAIN frames : AwaitedReturn(f)
    \/ \E f \in DOMAIN frames : RcmPreview(f)
    \/ \E f \in DOMAIN frames : RcmPreviewDone(f)
    \/ \E f \in DOMAIN frames : RcmGeneric(f)
    \/ \E f \in DOMAIN frames : RcmGenericDone(f)
    \/ \E f \in DOMAIN frames : Rethrow(f)
    \/ \E h \in DOMAIN host : HostResolve(h)
    \/ \E h \in DOMAIN host : HostReject(h)

Spec == Init /\ [][Next]_vars

\* ---------------------------------------------------------------- properties

FrameIds == DOMAIN frames

RvFrames == {f \in FrameIds : frames[f].fn = "renderValue"}

\* The activations f started, in the order it started them.
ChildrenOf(f) == SelectSeq([k \in 1..Len(frames) |-> k], LAMBDA c : frames[c].parent = f)

\* f is a, or was started (directly or not) by a.
RECURSIVE IsUnder(_, _)
IsUnder(f, a) ==
    \/ f = a
    \/ f # 0 /\ frames[f].parent # 0 /\ IsUnder(frames[f].parent, a)

\* The host calls made by f or by an activation under f.
HostCallsUnder(a) == {h \in DOMAIN host : IsUnder(host[h].by, a)}

\* f is a renderValue activation that got past the recursion guard.
PassedGuard(f) ==
    /\ frames[f].fn = "renderValue"
    /\ frames[f].depth <= frames[f].settings.maxRecursiveRenderDepth

IsTextNode(n, s) ==
    /\ dom[n].tag = "#text"
    /\ dom[n].text = s
    /\ dom[n].kids = <<>>

IsPrefix(s, t) == Len(s) <= Len(t) /\ SubSeq(t, 1, Len(s)) = s

\* A host markup render has failed.
HostFailed == \E h \in DOMAIN host : host[h].st = "rejected"

\* Only a list pair whose key is (through list pairs alone) itself exhausts the
\* stack: no other value of the heap comes near StackLimit.
OverflowOnlyOnPairCycle ==
    \A f \in FrameIds :
        frames[f].err = "RangeError" \/ frames[f].sd >= StackLimit
            => frames[1].field = "vCycPair"

\* ---------------------------------------------------------------- C1

\* C1: for every Literal, cyclic ones included, a top-level renderValue call
\* comes to its end through the depth guard alone: no activation is ever
\* ended by the exhaustion of the call stack instead.
C1_DepthGuardBoundsRecursion ==
    \A f \in FrameIds : frames[f].err # "RangeError"

\* ---------------------------------------------------------------- C2

\* The children e are the separator-joined outputs of the activations cs:
\* out(c1), ", ", out(c2), ..., ", ", out(cn), nothing before, nothing after.
RECURSIVE JoinedBy(_, _)
JoinedBy(cs, e) ==
    IF cs = <<>> THEN e = <<>>
    ELSE LET o == frames[Head(cs)].out
         IN  /\ IsPrefix(o, e)
             /\ IF Tail(cs) = <<>> THEN Len(e) = Len(o)
                ELSE /\ Len(e) > Len(o)
                     /\ IsTextNode(e[Len(o) + 1], ", ")
                     /\ JoinedBy(Tail(cs), SubSeq(e, Len(o) + 2, Len(e)))

\* C2: in compact mode, once renderValue has returned from a non-empty
\* sequence, its grouping span holds the renders of the elements in source
\* order with exactly ", " between consecutive renders, under either strategy.
C2_CompactSeparators ==
    \A f \in FrameIds :
        /\ PassedGuard(f)
        /\ Arm(frames[f].field) = "array"
        /\ ~frames[f].expandList
        /\ Heap[frames[f].field].elems # <<>>
        /\ frames[f].st = "done"
        => LET cs == ChildrenOf(f)
               elems == Heap[frames[f].field].elems
           IN  /\ Len(cs) = Len(elems)
               /\ \A j \in 1..Len(cs) : frames[cs[j]].field = elems[j]
               /\ dom[frames[f].el].tag = "span"
               /\ JoinedBy(cs, dom[frames[f].el].kids)

\* ---------------------------------------------------------------- C3

\* C3: the container, and every node the renderer made, is append-only: in
\* every step its old child list is a prefix of its new one.
C3_AppendOnly ==
    [][\A n \in DOMAIN dom :
          n = Container \/ dom[n].mk = "renderer"
              => IsPrefix(dom[n].kids, dom'[n].kids)]_vars

\* ---------------------------------------------------------------- C4

\* C4: children of a sequence or mapping are rendered one after the other: when
\* a later child has been started, every earlier child has returned, with all
\* the activations under it and all the host renders they made; at most one
\* host render is in flight; the children are started in source order.
C4_ChildrenInSequence ==
    /\ Cardinality({h \in DOMAIN host : host[h].st = "pending"}) <= 1
    /\ \A a, b \in RvFrames :
          /\ a < b
          /\ frames[a].parent = frames[b].parent
          /\ frames[b].site \in {"elem", "entry"}
          => /\ \A f \in FrameIds : IsUnder(f, a) => frames[f].st = "done"
             /\ \A h \in HostCallsUnder(a) : host[h].st = "resolved"
    /\ \A f \in RvFrames :
          Arm(frames[f].field) \in {"array", "object"}
          => LET cs == ChildrenOf(f)
             IN  \A j \in 1..Len(cs) :
                    /\ frames[cs[j]].field = Heap[frames[f].field].elems[j]
                    /\ IF frames[f].expandList
                       THEN frames[cs[j]].container = dom[frames[f].el].kids[j]
                       ELSE frames[cs[j]].container = frames[f].el

\* Witness of C4: a second child has been started after the first one went
\* through a host markup render.
C4_Witness ==
    \E a, b \in RvFrames :
        /\ a < b
        /\ frames[a].parent = frames[b].parent
        /\ frames[b].site = "elem"
        /\ HostCallsUnder(a) # {}

\* ---------------------------------------------------------------- C5

\* The activations that (directly or not) started the failed host renders.
AwaitingFailure == {f \in FrameIds : \E h \in DOMAIN host :
                        host[h].st = "rejected" /\ IsUnder(host[h].by, f)}

C6_GuardedFrames ==
    /\ [](\A f \in RvFrames :
            /\ frames[f].depth <= frames[f].settings.maxRecursiveRenderDepth + 1
            /\ frames[f].depth > frames[f].settings.maxRecursiveRenderDepth =>
                  /\ frames[f].pc \in {"start", "end"}
                  /\ frames[f].el = 0
                  /\ frames[f].st # "thrown"
                  /\ ChildrenOf(f) = <<>>
                  /\ \A h \in DOMAIN host : host[h].by # f
                  /\ frames[f].st = "done" =>
                        /\ Len(frames[f].out) = 1
                        /\ IsTextNode(frames[f].out[1], "..."))
    /\ [][\A f \in RvFrames :
            /\ frames[f].depth > frames[f].settings.maxRecursiveRenderDepth
            /\ frames[f].st = "run"
            /\ frames'[f].st # "run"
            => /\ Len(dom') = Len(dom) + 1
               /\ dom'[Len(dom')] = Node("#text", "...", "", "renderer")
               /\ \A n \in DOMAIN dom :
                     dom'[n] = IF n = frames[f].container
                               THEN [dom[n] EXCEPT !.kids = Append(@, Len(dom'))]
                               ELSE dom[n]
               /\ host' = host
               /\ Len(frames') = Len(frames)]_vars

\* Witness of C6: an activation one level beyond the bound has returned.
C6_Witness ==
    \E f \in RvFrames :
        /\ frames[f].depth = frames[f].settings.maxRecursiveRenderDepth + 1
        /\ frames[f].st = "done"
        /\ Arm(frames[f].field) \in {"array", "object", "listPair", "scalar"}

\* ---------------------------------------------------------------- C7

\* The activations whose value is a keyed mapping with a constructor name that
\* is present and is not "Object".
ForeignFrames ==
    {f \in RvFrames : /\ Heap[frames[f].field].kind = "object"
                      /\ Heap[frames[f].field].ctor \notin {"", "Object"}}

TypeNameText(f) == "<" \o Heap[frames[f].field].ctor \o ">"

\* C7: such a value is never traversed and causes no host render, whatever its
\* fields hold and in either mode: its activation makes no call and no node but
\* one text; wherever it is classified (its activation having got past the
\* recursion guard) that text is "<TypeName>".
C7_ForeignObjectOpaque ==
    \A f \in ForeignFrames :
        /\ ChildrenOf(f) = <<>>
        /\ \A h \in DOMAIN host : host[h].by # f
        /\ frames[f].el = 0
        /\ frames[f].st # "thrown"
        /\ frames[f].st = "done" => Len(frames[f].out) = 1
        /\ frames[f].st = "done" /\ PassedGuard(f) =>
              IsTextNode(frames[f].out[1], TypeNameText(f))

\* Witness of C7: a foreign object with self-referential fields, nested in a
\* sequence, has been rendered as its type name.
C7_Witness ==
    \E f \in ForeignFrames :
        /\ frames[f].parent # 0
        /\ frames[f].st = "done"
        /\ Heap[frames[f].field].elems[1] = frames[f].field
        /\ Len(frames[f].out) = 1
        /\ IsTextNode(frames[f].out[1], "<Foo>")

\* ---------------------------------------------------------------- C8

\* C8: rendering a list pair is: renderValue(key) into the pair's container,
\* then ": ", then renderValue(value) into the same container, both calls with
\* the pair's own depth, context and expandList; so what the pair has put in
\* the container is the key's render, then ": ", then the value's render.
C8_ListPairIsKeyColonValue ==
    \A f \in FrameIds :
        /\ PassedGuard(f)
        /\ Heap[frames[f].field].kind = "listPair"
        /\ frames[f].st = "done"
        => LET cs == ChildrenOf(f)
           IN  /\ Len(cs) = 2
               /\ frames[cs[1]].field = Heap[frames[f].field].elems[1]
               /\ frames[cs[2]].field = Heap[frames[f].field].elems[2]
               /\ \A j \in 1..2 :
                     /\ frames[cs[j]].fn = "renderValue"
                     /\ frames[cs[j]].container = frames[f].container
                     /\ frames[cs[j]].depth = frames[f].depth
                     /\ frames[cs[j]].context = frames[f].context
                     /\ frames[cs[j]].expandList = frames[f].expandList
               /\ \E colon \in DOMAIN dom :
                     /\ IsTextNode(colon, ": ")
                     /\ frames[f].out =
                            frames[cs[1]].out \o <<colon>> \o frames[cs[2]].out

\* ---------------------------------------------------------------- C9

\* The step in which the generic strategy of activation f creates its sub-node
\* and hands it to the host.
GenericStartStep(f) ==
    /\ frames[f].fn = "renderCompactMarkdown"
    /\ ~IsLivePreview
    /\ frames[f].pc = "start"
    /\ frames'[f].pc = "collapse"

\* The step in which it looks at what the host rendered, after the await.
GenericCollapseStep(f) ==
    /\ frames[f].fn = "renderCompactMarkdown"
    /\ ~IsLivePreview
    /\ frames[f].pc = "collapse"
    /\ frames'[f].pc = "end"

\* The host renders into a new, empty span appended to the target.
RendersIntoNewSpan(f) ==
    LET sub == frames'[f].el
    IN  /\ sub = Len(dom) + 1
        /\ dom'[sub].tag = "span"
        /\ dom'[sub].kids = <<>>
        /\ dom'[frames[f].container].kids = Append(dom[frames[f].container].kids, sub)
        /\ host' = Append(host, HostCall(f, frames[f].field, sub))

\* C9: the host renders into a new span appended to the target; the paragraph
\* is hoisted iff the sub-node has exactly one child (an element, as
\* Element.children counts them) and that child is a paragraph; after a hoist
\* the sub-node's children are exactly the paragraph's former children, in
\* order, and no paragraph is left (its child nodes are its own text nodes,
\* then the paragraph's former child nodes, in order); in every other case
\* nothing is changed.
C9_HoistIffOnlyChild ==
    [][\A f \in FrameIds :
          /\ GenericStartStep(f) => RendersIntoNewSpan(f)
          /\ GenericCollapseStep(f) =>
                LET sub == frames[f].el
                    kids == dom[sub].kids
                    elements == SelectSeq(kids, LAMBDA k : dom[k].tag # "#text")
                IN  IF Len(elements) = 1 /\ dom[elements[1]].tag = "p"
                    THEN LET p == elements[1]
                         IN  /\ SelectSeq(dom'[sub].kids, LAMBDA k : dom'[k].tag # "#text")
                                   = SelectSeq(dom[p].kids, LAMBDA k : dom[k].tag # "#text")
                             /\ dom'[sub].kids =
                                   SelectSeq(kids, LAMBDA k : k # p) \o dom[p].kids
                             /\ dom'[p].kids = <<>>
                             /\ \A n \in DOMAIN dom \ {sub, p} : dom'[n] = dom[n]
                             /\ Len(dom') = Len(dom)
                    ELSE dom' = dom]_vars

\* Witness of C9: a paragraph that was the sub-node's only child has been
\* hoisted: the sub-node holds the paragraph's two children, in their order.
C9_Witness ==
    \E f \in FrameIds :
        /\ frames[f].fn = "renderCompactMarkdown"
        /\ ~IsLivePreview
        /\ frames[f].st = "done"
        /\ LET kids == dom[frames[f].el].kids
           IN  /\ Len(kids) = 2
               /\ IsTextNode(kids[1], frames[f].field)
               /\ dom[kids[1]].mk = "host"
               /\ dom[kids[2]].tag = "em"
               /\ \E n \in DOMAIN dom : dom[n].tag = "p" /\ dom[n].kids = <<>>

\* ---------------------------------------------------------------- C10

\* C10: a recursive call for an element of a sequence or a value of a mapping
\* gets context "list" and the caller's depth + 1, whatever the caller's
\* context; the calls for a list pair's key and value get the caller's own
\* context and depth; every recursive call gets the caller's settings and
\* expandList.
C10_CallArguments ==
    \A c \in RvFrames :
        frames[c].parent # 0 =>
            LET p == frames[frames[c].parent]
            IN  /\ frames[c].settings = p.settings
                /\ frames[c].expandList = p.expandList
                /\ Heap[p.field].kind \in {"array", "dataArray", "object", "listPair"}
                /\ IF Heap[p.field].kind = "listPair"
                   THEN /\ frames[c].site \in {"key", "value"}
                        /\ frames[c].context = p.context
                        /\ frames[c].depth = p.depth
                   ELSE /\ frames[c].site \in {"elem", "entry"}
                        /\ frames[c].context = "list"
                        /\ frames[c].depth = p.depth + 1

\* Witness of C10: a list pair at the root has passed "root" on to its key,
\* and elements have been started both by a sequence whose context is "root"
\* and by one whose context is "list".
C10_Witness ==
    /\ \E c \in RvFrames : frames[c].site = "key" /\ frames[c].context = "root"
    /\ \E c \in RvFrames :
          /\ frames[c].site = "elem"
          /\ frames[frames[c].parent].context = "root"
          /\ frames[c].context = "list"
    /\ \E c \in RvFrames :
          /\ frames[c].site = "elem"
          /\ frames[frames[c].parent].context = "list"

====
